---- MODULE Spec2Model ----
(***************************************************************************)
(* Model of scikit-lego's pandas transformers (ColumnDropper,              *)
(* PandasTypeSelector, ColumnSelector: sklego/preprocessing/               *)
(* pandastransformers.py) and of the group/value split used by the grouped *)
(* meta estimators (sklego/meta/_grouped_utils.py).                        *)
(*                                                                         *)
(* A table is abstracted to what the code reads of it: the kind of         *)
(* container, the ordered column labels and the dtype of every column      *)
(* (plus, for the split, the row count, the row index and which columns    *)
(* hold a missing value).  Cell values are never read by the transformers. *)
(***************************************************************************)
EXTENDS Integers, Sequences, FiniteSets, TLC

VARIABLES est, call, fitted, split

vars == <<est, call, fitted, split>>

(***************************************************************************)
(* Bounds of the model.                                                    *)
(***************************************************************************)
MaxCols == 2

MaxRows == 2

Names == {"a", "b", "c"}

Dtypes == {"int64", "object"}

TypeSels == {"number", "object"}

Range(s) == {s[i] : i \in DOMAIN s}

\* Sequences over S of length at most n without a repeated element.
InjSeqs(S, n) ==
    {s \in UNION {[1..k -> S] : k \in 0..n} :
        \A i, j \in DOMAIN s : i # j => s[i] # s[j]}

(***************************************************************************)
(* Inputs.                                                                 *)
(***************************************************************************)
\* A pandas DataFrame: column labels are unique, every column has a dtype.
Frame(c, d) == [kind |-> "DataFrame", columns |-> c, dtypes |-> d]

\* A numpy array: not a dataframe of any supported library, no .dtypes,
\* no column labels.
NdArray == [kind |-> "ndarray", columns |-> <<>>, dtypes |-> <<>>]

\* ColumnSelector and ColumnDropper read X.columns only: their inputs are the
\* frames of at most MaxCols columns in every column order, one dtype throughout.
NamedFrames ==
    {Frame(c, [i \in DOMAIN c |-> "int64"]) : c \in InjSeqs(Names, MaxCols)}

ColumnInputs == NamedFrames \cup {NdArray}

\* PandasTypeSelector reads the dtypes: its inputs are the frames of at most
\* MaxCols columns with every dtype assignment, labels in NameOrder.
NameOrder == <<"a", "b", "c">>

SortedCols(n) ==
    {SelectSeq(NameOrder, LAMBDA x : x \in S) : S \in {T \in SUBSET Names : Cardinality(T) <= n}}

TypeFrames ==
    UNION {{Frame(c, d) : d \in [DOMAIN c -> Dtypes]} : c \in SortedCols(MaxCols)}

TypeInputs == TypeFrames \cup {NdArray}

NoSignature == [columns |-> <<>>, dtypes |-> <<>>]

\* __init__ of the three classes stores its parameters and nothing else.
\* columns is a list of names, as the signature (columns: list) declares.
ColumnEstimators ==
    {[cls |-> k, columns |-> c, include |-> {}, exclude |-> {}, attrs |-> {},
      columns_ |-> <<>>, feature_names_ |-> <<>>, X_dtypes_ |-> NoSignature] :
        k \in {"ColumnDropper", "ColumnSelector"}, c \in InjSeqs(Names, MaxCols)}

TypeEstimators ==
    {[cls |-> "PandasTypeSelector", columns |-> <<>>, include |-> i, exclude |-> x,
      attrs |-> {}, columns_ |-> <<>>, feature_names_ |-> <<>>,
      X_dtypes_ |-> NoSignature] :
        i \in SUBSET TypeSels, x \in SUBSET TypeSels}

(***************************************************************************)
(* Helpers shared by the transformers.                                     *)
(***************************************************************************)
\* sklego.common.as_list on a list: [i for i in val].
as_list(val) == [i \in 1..Len(val) |-> val[i]]

\* self.<name> = val
SetAttr(e, name, val) == [e EXCEPT !.attrs = @ \cup {name}, ![name] = val]

\* A call that raises: the instance keeps what was assigned before the raise.
Raise(e, kind) == [est |-> e, outcome |-> kind, result |-> <<>>, missing |-> {}]

RaiseKeyError(e, names) ==
    [est |-> e, outcome |-> "KeyError", result |-> <<>>, missing |-> names]

\* A call that returns; result is the column list of the returned table
\* (empty for fit, which returns self).
Return(e, cols) == [est |-> e, outcome |-> "ok", result |-> cols, missing |-> {}]

\* nw.from_native accepts the supported dataframes and raises TypeError otherwise.
nw_supported(X) == X.kind = "DataFrame"

\* X.drop(names): the columns of X not named, in X's order.
nw_drop(Xcolumns, names) == SelectSeq(Xcolumns, LAMBDA x : x \notin Range(names))

\* Mutant of nw_select: the named columns in the frame's order.
nw_select_frame_order(Xcolumns, names) ==
    SelectSeq(Xcolumns, LAMBDA x : x \in Range(names))

\* X.select(names): the named columns, in the order named.
nw_select(Xcolumns, names) == names

\* check_is_fitted(self, attributes): every attribute must exist.
check_is_fitted(e, attributes) == attributes \subseteq e.attrs

(***************************************************************************)
(* ColumnDropper.                                                          *)
(***************************************************************************)
\* Mutant of Dropper_check_column_names: reports every requested name once
\* one of them is missing.
Dropper_check_column_names_all(columns_, Xcolumns) ==
    IF Range(columns_) \subseteq Range(Xcolumns) THEN {} ELSE Range(columns_)

\* _check_column_names: the names of columns_ that are no column of X
\* (non_existent_columns); KeyError lists them when there is one.
Dropper_check_column_names(columns_, Xcolumns) == Range(columns_) \ Range(Xcolumns)

\* [x for x in X.columns if x not in self.columns_]
Dropper_feature_names(columns_, Xcolumns) ==
    SelectSeq(Xcolumns, LAMBDA x : x \notin Range(columns_))

ColumnDropper_fit(e, X) ==
    LET e1 == SetAttr(e, "columns_", as_list(e.columns))
    IN  IF ~nw_supported(X) THEN Raise(e1, "TypeError")
        ELSE LET non_existent_columns == Dropper_check_column_names(e1.columns_, X.columns)
             IN  IF Cardinality(non_existent_columns) > 0
                 THEN RaiseKeyError(e1, non_existent_columns)
                 ELSE LET e2 == SetAttr(e1, "feature_names_",
                                        Dropper_feature_names(e1.columns_, X.columns))
                      IN  IF Len(e2.feature_names_) = 0   \* _check_column_length
                          THEN Raise(e2, "ValueError")
                          ELSE Return(e2, <<>>)

ColumnDropper_transform(e, X) ==
    IF ~check_is_fitted(e, {"feature_names_"}) THEN Raise(e, "NotFittedError")
    ELSE IF ~nw_supported(X) THEN Raise(e, "TypeError")
    ELSE IF e.columns_ # <<>>
         THEN IF Range(e.columns_) \subseteq Range(X.columns)
              THEN Return(e, nw_drop(X.columns, e.columns_))
              ELSE Raise(e, "ColumnNotFoundError")   \* the table library's own failure
         ELSE Return(e, X.columns)

Dropper_get_feature_names(e) == e.feature_names_

(***************************************************************************)
(* ColumnSelector.                                                         *)
(***************************************************************************)
Selector_check_column_names(columns_, Xcolumns) == Range(columns_) \ Range(Xcolumns)

ColumnSelector_fit(e, X) ==
    LET e1 == SetAttr(e, "columns_", as_list(e.columns))
    IN  IF ~nw_supported(X) THEN Raise(e1, "TypeError")
        ELSE LET non_existent_columns == Selector_check_column_names(e1.columns_, X.columns)
             IN  IF Cardinality(non_existent_columns) > 0
                 THEN RaiseKeyError(e1, non_existent_columns)
                 ELSE IF Len(e1.columns_) = 0   \* _check_column_length
                      THEN Raise(e1, "ValueError")
                      ELSE Return(e1, <<>>)

\* No check_is_fitted here; the guard reads the constructor parameter
\* self.columns and the projection reads self.columns_.
ColumnSelector_transform(e, X) ==
    IF ~nw_supported(X) THEN Raise(e, "TypeError")
    ELSE IF e.columns # <<>>
         THEN IF "columns_" \notin e.attrs THEN Raise(e, "AttributeError")
              ELSE IF Range(e.columns_) \subseteq Range(X.columns)
                   THEN Return(e, nw_select(X.columns, e.columns_))
                   ELSE Raise(e, "ColumnNotFoundError")
         ELSE Return(e, X.columns)

Selector_get_feature_names(e) == e.columns_

(***************************************************************************)
(* PandasTypeSelector.                                                     *)
(***************************************************************************)
IsNumber(dtype) == dtype = "int64"

\* Whether a select_dtypes selector matches a column dtype.
Matches(sel, dtype) == sel = dtype \/ (sel = "number" /\ IsNumber(dtype))

\* pandas refuses an empty selection request and overlapping include/exclude.
select_dtypes_raises(include, exclude) ==
    (include = {} /\ exclude = {}) \/ include \cap exclude # {}

\* X.select_dtypes(include=..., exclude=...).columns
select_dtypes(X, include, exclude) ==
    LET keep(i) == /\ (include = {} \/ \E s \in include : Matches(s, X.dtypes[i]))
                   /\ ~ \E s \in exclude : Matches(s, X.dtypes[i])
        idx == SelectSeq([i \in DOMAIN X.columns |-> i], keep)
    IN  [k \in DOMAIN idx |-> X.columns[idx[k]]]

\* _check_X_for_type
check_X_for_type(X) == X.kind = "DataFrame"

\* Mutant of dtypes_mismatch: compares the dtypes of the selected columns only.
dtypes_mismatch_selected_only(e, X) ==
    \/ e.X_dtypes_.columns # X.columns
    \/ \E i \in DOMAIN X.columns :
          /\ X.columns[i] \in Range(e.feature_names_)
          /\ e.X_dtypes_.dtypes[i] # X.dtypes[i]

\* Mutant of dtypes_mismatch: compares the columns X shares with the fit table
\* by label and ignores the others.
dtypes_mismatch_shared_only(e, X) ==
    \E i \in DOMAIN X.columns, j \in DOMAIN e.X_dtypes_.columns :
        /\ X.columns[i] = e.X_dtypes_.columns[j]
        /\ X.dtypes[i] # e.X_dtypes_.dtypes[j]

\* (self.X_dtypes_ != X.dtypes).any(), with the ValueError pandas raises for
\* Series that are not identically labelled: TRUE when transform raises
\* ValueError at lines 290-299.
dtypes_mismatch(e, X) ==
    \/ e.X_dtypes_.columns # X.columns
    \/ \E i \in DOMAIN X.columns : e.X_dtypes_.dtypes[i] # X.dtypes[i]

PandasTypeSelector_fit(e, X) ==
    IF ~check_X_for_type(X) THEN Raise(e, "TypeError")
    ELSE LET e1 == SetAttr(e, "X_dtypes_", [columns |-> X.columns, dtypes |-> X.dtypes])
         IN  IF select_dtypes_raises(e.include, e.exclude) THEN Raise(e1, "ValueError")
             ELSE LET e2 == SetAttr(e1, "feature_names_",
                                    select_dtypes(X, e.include, e.exclude))
                  IN  IF Len(e2.feature_names_) = 0
                      THEN Raise(e2, "ValueError")
                      ELSE Return(e2, <<>>)

PandasTypeSelector_transform(e, X) ==
    IF ~check_is_fitted(e, {"X_dtypes_", "feature_names_"}) THEN Raise(e, "NotFittedError")
    ELSE IF X.kind = "ndarray" THEN Raise(e, "AttributeError")   \* X.dtypes
    ELSE IF dtypes_mismatch(e, X) THEN Raise(e, "ValueError")
    ELSE IF ~check_X_for_type(X) THEN Raise(e, "TypeError")
    ELSE IF select_dtypes_raises(e.include, e.exclude) THEN Raise(e, "ValueError")
    ELSE Return(e, select_dtypes(X, e.include, e.exclude))

Type_get_feature_names(e) == e.feature_names_

(***************************************************************************)
(* The transformers as a state machine: one instance, any sequence of fit  *)
(* and transform calls on it.                                              *)
(*   est     the instance (parameters, fitted attributes, attrs = the      *)
(*           fitted attributes that exist)                                 *)
(*   call    the last call: its input, how it ended, what it returned      *)
(*           (chained: the call is the transform of fit(X).transform(X),   *)
(*           made on the input of the fit that returned just before it)    *)
(*   fitted  history: whether a fit on the instance has returned           *)
(***************************************************************************)
NoCall ==
    [op |-> "none", X |-> NdArray, outcome |-> "none", result |-> <<>>,
     missing |-> {}, chained |-> FALSE]

SplitIdle == [pc |-> "unused"]

Called(op, X, r, chained) ==
    [op |-> op, X |-> X, outcome |-> r.outcome, result |-> r.result,
     missing |-> r.missing, chained |-> chained]

DoFit(X, r) ==
    /\ est' = r.est
    /\ call' = Called("fit", X, r, FALSE)
    /\ fitted' = (fitted \/ r.outcome = "ok")
    /\ UNCHANGED split

DoTransform(X, r) ==
    /\ est' = r.est
    /\ call' = Called("transform", X, r,
                      call.op = "fit" /\ call.outcome = "ok" /\ call.X = X)
    /\ UNCHANGED <<fitted, split>>

DropperFit ==
    /\ est.cls = "ColumnDropper"
    /\ \E X \in ColumnInputs : DoFit(X, ColumnDropper_fit(est, X))

DropperTransform ==
    /\ est.cls = "ColumnDropper"
    /\ \E X \in ColumnInputs : DoTransform(X, ColumnDropper_transform(est, X))

SelectorFit ==
    /\ est.cls = "ColumnSelector"
    /\ \E X \in ColumnInputs : DoFit(X, ColumnSelector_fit(est, X))

SelectorTransform ==
    /\ est.cls = "ColumnSelector"
    /\ \E X \in ColumnInputs : DoTransform(X, ColumnSelector_transform(est, X))

TypeSelectorFit ==
    /\ est.cls = "PandasTypeSelector"
    /\ \E X \in TypeInputs : DoFit(X, PandasTypeSelector_fit(est, X))

TypeSelectorTransform ==
    /\ est.cls = "PandasTypeSelector"
    /\ \E X \in TypeInputs : DoTransform(X, PandasTypeSelector_transform(est, X))

Init ==
    /\ est \in ColumnEstimators \cup TypeEstimators
    /\ call = NoCall
    /\ fitted = FALSE
    /\ split = SplitIdle

Next ==
    \/ DropperFit
    \/ DropperTransform
    \/ SelectorFit
    \/ SelectorTransform
    \/ TypeSelectorFit
    \/ TypeSelectorTransform

Spec == Init /\ [][Next]_vars

(***************************************************************************)
(* _split_groups_and_values (sklego/meta/_grouped_utils.py).               *)
(*                                                                         *)
(* The input X is a pandas DataFrame (labelled columns, each with a dtype, *)
(* any row index), a numpy array (positional columns of one dtype), a      *)
(* complex numpy array or a scipy sparse matrix.  nulls[i] tells whether   *)
(* column i holds a missing value; an object column holds strings.         *)
(***************************************************************************)
Fresh(n) == [i \in 1..n |-> i - 1]

\* A row index left over from filtering rows: not 0..n-1.
Scattered(n) == [i \in 1..n |-> 2 * i + 1]

SplitDtypes == {"float64", "object"}

GroupLens == {1, 2}

SeqsOfLen(S, lens) == UNION {[1..k -> S] : k \in lens}

\* Column contents: no missing value in a table without rows.
ColumnChoices(n, k, dtypes) ==
    {<<d, u>> \in dtypes \X [1..k -> BOOLEAN] : n = 0 => \A i \in 1..k : ~u[i]}

SplitFrames ==
    UNION {UNION {{[kind |-> "DataFrame", nrows |-> n, index |-> ix,
                    labels |-> SubSeq(NameOrder, 1, k), dtypes |-> c[1], nulls |-> c[2]] :
                      ix \in {Fresh(n), Scattered(n)},
                      c \in ColumnChoices(n, k, [1..k -> SplitDtypes])} :
                  k \in 0..MaxCols} : n \in 0..MaxRows}

SplitArrays ==
    UNION {UNION {{[kind |-> "ndarray", nrows |-> n, index |-> Fresh(n),
                    labels |-> <<>>, dtypes |-> c[1], nulls |-> c[2]] :
                      c \in ColumnChoices(n, k, {[i \in 1..k |-> t] : t \in SplitDtypes})} :
                  k \in 0..MaxCols} : n \in 0..MaxRows}

\* Inputs the format checks refuse, one of every shape.
SplitRefused ==
    {[kind |-> kd, nrows |-> n, index |-> Fresh(n), labels |-> <<>>,
      dtypes |-> [i \in 1..k |-> IF kd = "sparse" THEN "float64" ELSE "complex128"],
      nulls |-> [i \in 1..k |-> FALSE]] :
        kd \in {"complex_ndarray", "sparse"}, n \in 1..MaxRows, k \in 1..MaxCols}

\* **kwargs forwarded to check_array; the options left out keep sklearn's defaults.
SplitKwargs == [force_all_finite : BOOLEAN, ensure_min_features : {0, 1}]

SplitCall(X, groups, m, check_X, kwargs) ==
    [pc |-> "start", X |-> X, groups |-> groups, min_value_cols |-> m,
     check_X |-> check_X, kwargs |-> kwargs,
     outcome |-> "none", group_index |-> <<>>, group_dtypes |-> <<>>,
     value_labels |-> <<>>, value_ncols |-> 0]

\* Group specifications by label: the labels a table can have and one it cannot.
FrameCalls ==
    {SplitCall(c[1], c[2], c[3], c[4], c[5]) :
        c \in SplitFrames \X SeqsOfLen(Range(SubSeq(NameOrder, 1, MaxCols)) \cup {"z"}, GroupLens)
              \X (0..MaxCols) \X BOOLEAN \X SplitKwargs}

\* Group specifications by position: valid, negative and out of range.
ArrayCalls ==
    {SplitCall(c[1], c[2], c[3], c[4], c[5]) :
        c \in (SplitArrays \cup SplitRefused) \X SeqsOfLen((0 - MaxCols)..MaxCols, GroupLens)
              \X (0..MaxCols) \X BOOLEAN \X SplitKwargs}

NCols(X) == Len(X.dtypes)

IsNumeric(dtype) == dtype = "float64"

\* sklearn.utils.check_array on a 2-D input of the given rows and columns:
\* TRUE when it returns, FALSE when it raises ValueError.
check_array(nrows, dtypes, nulls, opts) ==
    /\ opts.dtype = "numeric" => \A i \in DOMAIN dtypes : dtypes[i] # "object"
    /\ opts.force_all_finite => \A i \in DOMAIN nulls : ~nulls[i]
    /\ nrows >= 1
    /\ opts.ensure_min_features > 0 => Len(dtypes) >= opts.ensure_min_features

\* check_array(..., **kwargs)
WithDefaults(kwargs) ==
    [dtype |-> "numeric", force_all_finite |-> kwargs.force_all_finite,
     ensure_min_features |-> kwargs.ensure_min_features]

\* _data_format_checks: TRUE when it returns.
data_format_checks(X) == X.kind # "complex_ndarray" /\ X.kind # "sparse"

\* pos_indexes[g] for pos_indexes = range(X.shape[1])
PosIndex(ncols, g) == IF g < 0 THEN g + ncols ELSE g

\* X.loc[:, groups] / X[:, groups] resolves: no KeyError, no IndexError.
GroupsResolve(X, groups) ==
    IF X.kind = "DataFrame"
    THEN \A i \in DOMAIN groups : groups[i] \in Range(X.labels)
    ELSE \A i \in DOMAIN groups : groups[i] >= 0 - NCols(X) /\ groups[i] < NCols(X)

\* The column of X (1-based) a group entry denotes.
GroupColumn(X, g) ==
    IF X.kind = "DataFrame" THEN CHOOSE i \in DOMAIN X.labels : X.labels[i] = g
    ELSE PosIndex(NCols(X), g) + 1

\* X.drop(columns=groups).values / np.delete(X, [pos_indexes[g] ...], axis=1):
\* the columns of X (1-based) left in the value part, in X's order.
ValueColumns(X, groups) ==
    SelectSeq([i \in 1..NCols(X) |-> i],
              LAMBDA i : \A k \in DOMAIN groups : GroupColumn(X, groups[k]) # i)

\* Mutant of reset_index: the grouping part keeps the index it came with.
reset_index_keep(index) == index

\* X_group.reset_index(drop=True)
reset_index(index) == Fresh(Len(index))

\* Mutant of NonNumericNull: scans the numeric grouping columns instead.
NumericNull(dtypes, nulls) ==
    \E i \in DOMAIN dtypes : IsNumeric(dtypes[i]) /\ nulls[i]

\* X_group.select_dtypes(exclude="number").isnull().any(axis=None)
NonNumericNull(dtypes, nulls) ==
    \E i \in DOMAIN dtypes : ~IsNumeric(dtypes[i]) /\ nulls[i]

\* _check_grouping_columns: TRUE when it returns.
check_grouping_columns(nrows, dtypes, nulls, kwargs) ==
    LET num == SelectSeq([i \in DOMAIN dtypes |-> i], LAMBDA i : IsNumeric(dtypes[i]))
    IN  /\ Len(num) > 0 =>
              check_array(nrows, [k \in DOMAIN num |-> dtypes[num[k]]],
                          [k \in DOMAIN num |-> nulls[num[k]]], WithDefaults(kwargs))
        /\ ~NonNumericNull(dtypes, nulls)

SplitRaise(c) == [c EXCEPT !.pc = "done", !.outcome = "ValueError"]

split_groups_and_values(c) ==
    LET X == c.X
    IN  IF ~data_format_checks(X) THEN SplitRaise(c)
        ELSE IF ~check_array(X.nrows, X.dtypes, X.nulls,
                             [dtype |-> "None", force_all_finite |-> FALSE,
                              ensure_min_features |-> c.min_value_cols])
        THEN SplitRaise(c)
        ELSE IF ~GroupsResolve(X, c.groups) THEN SplitRaise(c)
        ELSE LET gcols == [k \in DOMAIN c.groups |-> GroupColumn(X, c.groups[k])]
                 gdtypes == [k \in DOMAIN gcols |-> X.dtypes[gcols[k]]]
                 gnulls == [k \in DOMAIN gcols |-> X.nulls[gcols[k]]]
                 vcols == ValueColumns(X, c.groups)
                 vdtypes == [k \in DOMAIN vcols |-> X.dtypes[vcols[k]]]
                 vnulls == [k \in DOMAIN vcols |-> X.nulls[vcols[k]]]
             IN  IF ~check_grouping_columns(X.nrows, gdtypes, gnulls, c.kwargs)
                 THEN SplitRaise(c)
                 ELSE IF c.check_X /\ ~check_array(X.nrows, vdtypes, vnulls,
                                                   WithDefaults(c.kwargs))
                 THEN SplitRaise(c)
                 ELSE [c EXCEPT !.pc = "done", !.outcome = "ok",
                                !.group_index = reset_index(X.index),
                                !.group_dtypes = gdtypes,
                                !.value_labels =
                                    IF X.kind = "DataFrame"
                                    THEN [k \in DOMAIN vcols |-> X.labels[vcols[k]]]
                                    ELSE <<>>,
                                !.value_ncols = Len(vcols)]

(***************************************************************************)
(* One call of the split on every input: split holds the arguments, and    *)
(* after the call how it ended and the shape of what it returned.          *)
(***************************************************************************)
\* The split is a module-level function: no transformer instance takes part.
NoEstimator ==
    [cls |-> "none", columns |-> <<>>, include |-> {}, exclude |-> {}, attrs |-> {},
     columns_ |-> <<>>, feature_names_ |-> <<>>, X_dtypes_ |-> NoSignature]

SplitGroupsAndValues ==
    /\ split.pc = "start"
    /\ split' = split_groups_and_values(split)
    /\ UNCHANGED <<est, call, fitted>>

InitSplit ==
    /\ est = NoEstimator
    /\ call = NoCall
    /\ fitted = FALSE
    /\ (split \in FrameCalls \/ split \in ArrayCalls)

NextSplit == SplitGroupsAndValues

SpecSplit == InitSplit /\ [][NextSplit]_vars

(***************************************************************************)
(* Properties of the transformers, checked under Spec.                     *)
(***************************************************************************)
ColumnClasses == {"ColumnSelector", "ColumnDropper"}

get_feature_names(e) ==
    CASE e.cls = "ColumnDropper" -> Dropper_get_feature_names(e)
      [] e.cls = "ColumnSelector" -> Selector_get_feature_names(e)
      [] OTHER -> Type_get_feature_names(e)

Pos(seq, x) == CHOOSE i \in DOMAIN seq : seq[i] = x

\* r lists elements of t, each once, in the order t has them.
InOrderOf(r, t) ==
    /\ Range(r) \subseteq Range(t)
    /\ \A i, j \in DOMAIN r : i < j => Pos(t, r[i]) < Pos(t, r[j])

\* C1: fit(T).transform(T) succeeds whenever fit(T) does; for a ColumnSelector
\* the result has exactly the columns C in the order C gives them, for a
\* ColumnDropper exactly the columns of T that are not in C, in T's order.
C1_FitTransformProjects ==
    (call.op = "transform" /\ call.chained /\ est.cls \in ColumnClasses) =>
        /\ call.outcome = "ok"
        /\ est.cls = "ColumnSelector" => call.result = est.columns
        /\ est.cls = "ColumnDropper" =>
              /\ Range(call.result) = Range(call.X.columns) \ Range(est.columns)
              /\ InOrderOf(call.result, call.X.columns)

\* A ColumnSelector of two columns, named in the order opposite to the table's,
\* has projected the table it was fitted on.
C1_Witness ==
    /\ call.op = "transform" /\ call.chained /\ call.outcome = "ok"
    /\ est.cls = "ColumnSelector"
    /\ Len(call.result) = 2
    /\ call.result # call.X.columns
    /\ Range(call.result) = Range(call.X.columns)

\* C2: after a fit that returned, every transform of a ColumnSelector or a
\* ColumnDropper that returns a table returns the column list
\* get_feature_names() gives, whatever the columns of its input.
C2_TransformReplaysFittedList ==
    (call.op = "transform" /\ call.outcome = "ok" /\ fitted /\ est.cls \in ColumnClasses) =>
        call.result = get_feature_names(est)

\* C3: fit of a ColumnSelector or ColumnDropper on a table that lacks a
\* requested name raises KeyError, and the names it lists are exactly the
\* requested names the table lacks, also when nothing would be retained.
C3_MissingNamesReported ==
    (/\ call.op = "fit" /\ est.cls \in ColumnClasses /\ call.X.kind = "DataFrame"
     /\ \E n \in Range(est.columns) : n \notin Range(call.X.columns)) =>
        /\ call.outcome = "KeyError"
        /\ \A n \in Names \cup call.missing :
              n \in call.missing <=>
                  (n \in Range(est.columns) /\ n \notin Range(call.X.columns))

\* A ColumnDropper asked to drop every column of the table and one the table
\* lacks: KeyError, although the retained list would be empty too.
C3_Witness ==
    /\ call.op = "fit" /\ est.cls = "ColumnDropper" /\ call.outcome = "KeyError"
    /\ call.X.columns # <<>>
    /\ Range(call.X.columns) \subseteq Range(est.columns)
    /\ call.missing # {}

\* C7: transform of a fitted PandasTypeSelector on a table with a column whose
\* dtype differs from the dtype recorded for that column at fit raises
\* ValueError, also when that column is not one of the fitted selection.
C7_DtypeChangeRejected ==
    (/\ est.cls = "PandasTypeSelector" /\ call.op = "transform" /\ fitted
     /\ call.X.kind = "DataFrame"
     /\ \E i \in DOMAIN call.X.columns, j \in DOMAIN est.X_dtypes_.columns :
           /\ call.X.columns[i] = est.X_dtypes_.columns[j]
           /\ call.X.dtypes[i] # est.X_dtypes_.dtypes[j]) =>
        call.outcome = "ValueError"

\* The same labels as at fit, and the only column whose dtype changed is one
\* the type filter did not select at fit.
C7_Witness ==
    /\ est.cls = "PandasTypeSelector" /\ call.op = "transform" /\ fitted
    /\ call.outcome = "ValueError"
    /\ call.X.columns = est.X_dtypes_.columns
    /\ \E i \in DOMAIN call.X.columns : call.X.dtypes[i] # est.X_dtypes_.dtypes[i]
    /\ \A i \in DOMAIN call.X.columns :
          call.X.dtypes[i] # est.X_dtypes_.dtypes[i] =>
              call.X.columns[i] \notin Range(est.feature_names_)

\* C8: transform of a fitted PandasTypeSelector on an input that is not a
\* pandas DataFrame fails with TypeError and with no other error.
C8_WrongContainerIsTypeError ==
    (/\ est.cls = "PandasTypeSelector" /\ call.op = "transform" /\ fitted
     /\ call.X.kind # "DataFrame") =>
        call.outcome = "TypeError"

\* X is the table whose signature was recorded at fit plus one more column,
\* of a dtype the type filter selects.
FitTablePlusMatchingColumn(e, X) ==
    /\ X.kind = "DataFrame"
    /\ Len(X.columns) = Len(e.X_dtypes_.columns) + 1
    /\ \E k \in DOMAIN X.columns :
          /\ X.columns[k] \in Range(select_dtypes(X, e.include, e.exclude))
          /\ \A i \in DOMAIN e.X_dtypes_.columns :
                LET j == IF i < k THEN i ELSE i + 1
                IN  /\ X.columns[j] = e.X_dtypes_.columns[i]
                    /\ X.dtypes[j] = e.X_dtypes_.dtypes[i]

\* C9 as stated: on the fit table plus an extra column of a matching type,
\* transform succeeds and returns a column set other than feature_names_.
C9_ExtraColumnChangesSelection ==
    (/\ est.cls = "PandasTypeSelector" /\ call.op = "transform" /\ fitted
     /\ FitTablePlusMatchingColumn(est, call.X)) =>
        /\ call.outcome = "ok"
        /\ Range(call.result) # Range(est.feature_names_)

\* C9 amended: transform recomputes the selection on its input, but it gets
\* there only when the input has the labels and dtypes recorded at fit, so a
\* transform that returns a table returns exactly feature_names_.
C9_SuccessfulTransformReturnsFitted ==
    (est.cls = "PandasTypeSelector" /\ call.op = "transform" /\ call.outcome = "ok") =>
        /\ call.result = est.feature_names_
        /\ call.X.columns = est.X_dtypes_.columns
        /\ call.X.dtypes = est.X_dtypes_.dtypes

\* A transform that returned a proper, non-empty part of its input.
C9_Witness ==
    /\ est.cls = "PandasTypeSelector" /\ call.op = "transform" /\ call.outcome = "ok"
    /\ call.result # <<>>
    /\ Len(call.result) < Len(call.X.columns)

\* C10: transform returns a table only if an earlier fit on the instance
\* returned.
C10_TransformOnlyAfterFit ==
    (call.op = "transform" /\ call.outcome = "ok") => fitted

(***************************************************************************)
(* Properties of the split, checked under SpecSplit.                       *)
(***************************************************************************)
Returned == split.pc = "done" /\ split.outcome = "ok"

\* The grouping table has the rows of X and the index 0..n-1.
GroupRowsAndIndex ==
    /\ Len(split.group_index) = split.X.nrows
    /\ \A i \in DOMAIN split.group_index : split.group_index[i] = i - 1

\* By label: the value matrix has the columns of X not named in groups.
ValueColumnsByLabel ==
    /\ Range(split.value_labels) = Range(split.X.labels) \ Range(split.groups)
    /\ split.value_ncols = Cardinality(Range(split.X.labels) \ Range(split.groups))
    /\ InOrderOf(split.value_labels, split.X.labels)

\* The positions a positional group list denotes, a negative one counted from
\* the end.
PositionsNamed ==
    {IF g < 0 THEN g + NCols(split.X) ELSE g : g \in Range(split.groups)}

\* C4 as stated: whenever the split returns, the grouping table has as many
\* rows as X and the index 0..n-1, and the value matrix has columns(X) minus
\* groups by label, or X.shape[1] - len(groups) columns by position, for every
\* list of positions, repeated or negative ones included.
C4_SplitShapes ==
    Returned =>
        /\ GroupRowsAndIndex
        /\ split.X.kind = "DataFrame" => ValueColumnsByLabel
        /\ split.X.kind = "ndarray" =>
              split.value_ncols = NCols(split.X) - Len(split.groups)

\* C4 amended: by position the value matrix has X.shape[1] minus the number of
\* distinct positions the list denotes, which is X.shape[1] - len(groups) when
\* no position is named twice.
C4_SplitShapesDistinctPositions ==
    Returned =>
        /\ GroupRowsAndIndex
        /\ split.X.kind = "DataFrame" => ValueColumnsByLabel
        /\ split.X.kind = "ndarray" =>
              /\ split.value_ncols = NCols(split.X) - Cardinality(PositionsNamed)
              /\ Cardinality(PositionsNamed) = Len(split.groups) =>
                    split.value_ncols = NCols(split.X) - Len(split.groups)

\* A positional split that returned for a list naming one column twice, once
\* by a negative position.
C4_Witness ==
    /\ Returned /\ split.X.kind = "ndarray"
    /\ Len(split.groups) = 2
    /\ \E i \in DOMAIN split.groups : split.groups[i] < 0
    /\ Cardinality(PositionsNamed) = 1
    /\ split.value_ncols = NCols(split.X) - 1

\* C5: whenever the split returns, with check_X set or not, the value matrix
\* has at least min_value_cols columns.
C5_MinValueColumnsRemain ==
    Returned => split.value_ncols >= split.min_value_cols

\* X passes the format and shape checks and the group list resolves.
PassesChecksAndResolves ==
    /\ split.X.kind \in {"DataFrame", "ndarray"}
    /\ split.X.nrows >= 1
    /\ NCols(split.X) >= split.min_value_cols
    /\ GroupsResolve(split.X, split.groups)

\* A grouping column that is not numeric holds a missing value.
NonNumericGroupColumnHasNull ==
    \E k \in DOMAIN split.groups :
        LET i == GroupColumn(split.X, split.groups[k])
        IN  split.X.dtypes[i] = "object" /\ split.X.nulls[i]

\* C6: when a non-numeric grouping column of a table that passes the format
\* and shape checks holds a missing value, the split raises ValueError, for
\* either check_X and every forwarded option.
C6_NullGroupKeyRejected ==
    (split.pc = "done" /\ PassesChecksAndResolves /\ NonNumericGroupColumnHasNull) =>
        split.outcome = "ValueError"

\* Rejected although NaN is allowed for numeric data, the value matrix is not
\* checked and the numeric grouping column has no missing value.
C6_Witness ==
    /\ split.pc = "done" /\ split.outcome = "ValueError"
    /\ PassesChecksAndResolves /\ NonNumericGroupColumnHasNull
    /\ split.X.kind = "DataFrame"
    /\ ~split.check_X /\ ~split.kwargs.force_all_finite
    /\ \E k \in DOMAIN split.groups :
          split.X.dtypes[GroupColumn(split.X, split.groups[k])] = "float64"
    /\ \A k \in DOMAIN split.groups :
          LET i == GroupColumn(split.X, split.groups[k])
          IN  split.X.dtypes[i] = "float64" => ~split.X.nulls[i]

====
